---- MODULE Spec2Model ----
(***************************************************************************)
(* Ticket aux data of package pm (src/pm/auxdata.go): RoundAuxDataCreator  *)
(* builds the 64-byte value  LeftPad32(round) ++ blockHash  from the       *)
(* RoundsManager's answers, RoundAuxDataValidator checks such a value      *)
(* against the RoundsManager's current answers.                            *)
(*                                                                         *)
(* A []byte is a sequence of numbers 0..255.  A *big.Int is a record       *)
(* [neg, abs] as in math/big: a sign and a normalised magnitude, the       *)
(* magnitude being its base-256 digits, least significant first, with no   *)
(* most significant zero digit (math/big's nat, with a digit per byte).    *)
(* Create and Validate are modelled one RoundsManager query at a time, so  *)
(* that the RoundsManager may move between the two queries of a call.      *)
(* The RoundsManager is the environment: its last initialized round only   *)
(* advances, the block hash of the current round may change, either query  *)
(* may fail, and a query that does not fail answers a non-nil round.       *)
(***************************************************************************)
EXTENDS Integers, Sequences, FiniteSets, TLC

VARIABLES
    lastRound,      \* RoundsManager: the last initialized round
    blockHash,      \* RoundsManager: round -> block hash of that round
    reorgs,         \* number of block hash changes so far
    ncalls,         \* number of Create / Validate calls started so far
    op,             \* the call in progress or last returned: none, Create, Validate
    pc,             \* position in that call: idle, L55, L60, L89, L94, done
    auxData,        \* Validate's argument
    round,          \* the local round of Create / Validate
    blkHash,        \* the local blkHash of Create / Validate
    ret,            \* what the last call returned
    calls,          \* the RoundsManager queries of the current call, in order
    ticket,         \* the last aux data a Create returned, with the answers it got
    expired         \* Validate was called with lastRound past the ticket's round

vars == <<lastRound, blockHash, reorgs, ncalls, op, pc, auxData, round, blkHash,
          ret, calls, ticket, expired>>

----------------------------------------------------------------------------
(* Bounds of the model *)

MaxCalls == 2

MaxReorgs == 1

----------------------------------------------------------------------------
(* Program constants *)

RoundLen == 32

HashLen == 32

AuxDataLen == 64

errInvalidAuxDataLength == "invalid ticket aux data length"

errInvalidCreationRound == "invalid ticket creation round"

errInvalidCreationRoundBlockHash == "invalid ticket creation round block hash"

NoError == "nil"

\* The errors a RoundsManager answers with (auxdata_test.go); they are values of
\* the RoundsManager's own, distinct from the three errors of this package.
errLastInitializedRound == "LastInitializedRound error"

errBlockHashForRound == "BlockHashForRound error"

----------------------------------------------------------------------------
(* Byte slices and big integers *)

Reverse(s) == [i \in 1..Len(s) |-> s[Len(s) + 1 - i]]

RECURSIVE norm(_)
\* math/big nat.norm: drop the most significant zero digits
norm(z) == IF Len(z) > 0 /\ z[Len(z)] = 0 THEN norm(SubSeq(z, 1, Len(z) - 1)) ELSE z

BigInt(neg, abs) == [neg |-> neg, abs |-> abs]

\* new(big.Int).SetBytes(buf): buf is a big-endian unsigned integer
SetBytes(buf) == BigInt(FALSE, norm(Reverse(buf)))

\* A faulty Bytes: the least significant byte first
BytesLittleEndian(x) == x.abs

\* x.Bytes(): the absolute value of x as a big-endian byte slice, no leading zero
Bytes(x) == Reverse(x.abs)

\* nat.cmp: -1, 0, 1
cmpAbs(x, y) ==
    IF Len(x) # Len(y) THEN (IF Len(x) < Len(y) THEN -1 ELSE 1)
    ELSE LET diff == {i \in 1..Len(x) : x[i] # y[i]}
         IN  IF diff = {} THEN 0
             ELSE LET i == CHOOSE j \in diff : \A k \in diff : k <= j
                  IN  IF x[i] < y[i] THEN -1 ELSE 1

\* x.Cmp(y): -1 if x < y, 0 if x = y, 1 if x > y
Cmp(x, y) ==
    IF x.neg # y.neg THEN (IF x.neg THEN -1 ELSE 1)
    ELSE IF x.neg THEN 0 - cmpAbs(x.abs, y.abs) ELSE cmpAbs(x.abs, y.abs)

\* A faulty LeftPadBytes: padding on the right
LeftPadBytesRight(slice, l) ==
    IF l <= Len(slice) THEN slice
    ELSE [i \in 1..l |-> IF i <= Len(slice) THEN slice[i] ELSE 0]

\* A faulty LeftPadBytes: only the last l bytes of a longer slice are kept
LeftPadBytesTruncate(slice, l) ==
    IF l <= Len(slice) THEN SubSeq(slice, Len(slice) - l + 1, Len(slice))
    ELSE [i \in 1..l |-> IF i <= l - Len(slice) THEN 0 ELSE slice[i - (l - Len(slice))]]

\* ethcommon.LeftPadBytes(slice, l): slice itself when it has l bytes or more
LeftPadBytes(slice, l) ==
    IF l <= Len(slice) THEN slice
    ELSE [i \in 1..l |-> IF i <= l - Len(slice) THEN 0 ELSE slice[i - (l - Len(slice))]]

\* bytes.Equal(a, b)
bytesEqual(a, b) == Len(a) = Len(b) /\ \A i \in 1..Len(a) : a[i] = b[i]

----------------------------------------------------------------------------
(* The values the RoundsManager and the callers draw from *)

Zeros(n) == [i \in 1..n |-> 0]

Round0 == BigInt(FALSE, <<>>)

Round5 == BigInt(FALSE, <<5>>)

\* 256: two digits, the low one zero
Round256 == BigInt(FALSE, <<0, 1>>)

\* 2^256 - 1: the largest round that fits 32 bytes
RoundMax == BigInt(FALSE, [i \in 1..RoundLen |-> 255])

\* 2^256: 33 bytes
RoundOver == BigInt(FALSE, Zeros(RoundLen) \o <<1>>)

\* -5: a *big.Int may be negative
RoundNeg == BigInt(TRUE, <<5>>)

Rounds == {RoundNeg, Round0, Round5, Round256, RoundMax, RoundOver}

ZeroHash == Zeros(HashLen)

\* blkHash of auxdata_test.go
TestHash == <<118, 36, 119, 141, 237, 199, 95, 139, 50, 43, 159, 161, 99, 42, 97, 13,
              64, 184, 94, 16, 108, 125, 155, 240, 231, 67, 169, 206, 41, 27, 156, 111>>

\* TestHash with another last byte
NearHash == [TestHash EXCEPT ![HashLen] = 110]

Hashes == {ZeroHash, TestHash, NearHash}

\* 64-byte values a caller of Validate may hold: every round of 32 bytes or less
\* with every hash
WellFormed ==
    {LeftPadBytes(Bytes(r), RoundLen) \o h :
        r \in {x \in Rounds : Len(x.abs) <= RoundLen /\ ~x.neg}, h \in Hashes}

\* values of another length: empty, one half, one byte short, one byte long
Malformed ==
    {<<>>, ZeroHash, SubSeq(Zeros(RoundLen) \o TestHash, 1, AuxDataLen - 1),
     Zeros(RoundLen) \o TestHash \o <<0>>}

AuxInputs == WellFormed \cup Malformed

NoReturn == [isNil |-> TRUE, data |-> <<>>, err |-> NoError]

NoTicket == [made |-> FALSE, data |-> <<>>, round |-> Round0, hash |-> ZeroHash,
             stale |-> FALSE]

----------------------------------------------------------------------------
(* RoundsManager: the two queries, and the chain moving on *)

\* LastInitializedRound() (*big.Int, error): the answers it may give now
LastInitializedRound ==
    {[round |-> lastRound, err |-> NoError]}
        \cup {[round |-> Round0, err |-> errLastInitializedRound]}

\* BlockHashForRound(round) ([32]byte, error): the answers it may give now
BlockHashForRound(r) ==
    {[hash |-> blockHash[r], err |-> NoError]}
        \cup {[hash |-> ZeroHash, err |-> errBlockHashForRound]}

\* one query as the RoundsManager saw it: the method, its arguments, what it
\* answered (no value with an error)
Query(fn, args, ans, err) ==
    [fn |-> fn, args |-> args, ans |-> IF err = NoError THEN <<ans>> ELSE <<>>,
     err |-> err]

\* The RoundsManager moves while a call is to come or in progress; what it does
\* once a call has returned is what it does after the caller has taken the result.
Observed == pc \notin {"idle", "done"} \/ (pc = "idle" /\ ncalls < MaxCalls)

\* a later round is initialized: the last initialized round never goes back
AdvanceRound ==
    /\ Observed
    /\ \E r \in Rounds : Cmp(r, lastRound) > 0 /\ lastRound' = r
    /\ UNCHANGED <<blockHash, reorgs, ncalls, op, pc, auxData, round, blkHash, ret,
                   calls, ticket, expired>>

\* the block the current round was initialized in is replaced
Reorg ==
    /\ Observed
    /\ reorgs < MaxReorgs
    /\ \E h \in Hashes :
          /\ h # blockHash[lastRound]
          /\ blockHash' = [blockHash EXCEPT ![lastRound] = h]
    /\ reorgs' = reorgs + 1
    /\ UNCHANGED <<lastRound, ncalls, op, pc, auxData, round, blkHash, ret, calls,
                   ticket, expired>>

----------------------------------------------------------------------------
(* RoundAuxDataCreator.Create *)

\* lines 65-68: append(ethcommon.LeftPadBytes(round.Bytes(), 32), blkHash[:]...)
CreateResult(r, h) == LeftPadBytes(Bytes(r), RoundLen) \o h

\* A faulty CreateError: the error is wrapped and the data an empty slice
CreateErrorWrapped(err) == [isNil |-> FALSE, data |-> <<>>, err |-> "Create failed"]

\* what Create returns on an error of the RoundsManager: nil, err
CreateError(err) == [isNil |-> TRUE, data |-> <<>>, err |-> err]

CallCreate ==
    /\ pc = "idle" /\ ncalls < MaxCalls
    /\ ncalls' = ncalls + 1
    /\ op' = "Create" /\ pc' = "L55"
    /\ UNCHANGED <<lastRound, blockHash, reorgs, auxData, round, blkHash, ret, calls,
                   ticket, expired>>

\* lines 55-58
CreateLastInitializedRound ==
    /\ op = "Create" /\ pc = "L55"
    /\ \E a \in LastInitializedRound :
          /\ calls' = Append(calls, Query("LastInitializedRound", <<>>, a.round, a.err))
          /\ IF a.err # NoError
             THEN /\ ret' = CreateError(a.err)
                  /\ pc' = "done"
                  /\ round' = round
             ELSE /\ round' = a.round
                  /\ pc' = "L60"
                  /\ ret' = ret
    /\ UNCHANGED <<lastRound, blockHash, reorgs, ncalls, op, auxData, blkHash, ticket,
                   expired>>

\* A faulty CreateBlockHashForRound: the hash asked for is that of the round
\* current at the second query
CreateBlockHashForRoundCurrent ==
    /\ op = "Create" /\ pc = "L60"
    /\ \E a \in BlockHashForRound(lastRound) :
          /\ calls' = Append(calls, Query("BlockHashForRound", <<lastRound>>, a.hash, a.err))
          /\ IF a.err # NoError
             THEN /\ ret' = CreateError(a.err)
                  /\ UNCHANGED <<blkHash, ticket>>
             ELSE /\ blkHash' = a.hash
                  /\ ret' = [isNil |-> FALSE, data |-> CreateResult(round, a.hash),
                             err |-> NoError]
                  /\ ticket' = [made |-> TRUE, data |-> CreateResult(round, a.hash),
                                round |-> round, hash |-> a.hash,
                                stale |-> Cmp(lastRound, round) > 0]
    /\ pc' = "done"
    /\ UNCHANGED <<lastRound, blockHash, reorgs, ncalls, op, auxData, round, expired>>

\* lines 60-68
CreateBlockHashForRound ==
    /\ op = "Create" /\ pc = "L60"
    /\ \E a \in BlockHashForRound(round) :
          /\ calls' = Append(calls, Query("BlockHashForRound", <<round>>, a.hash, a.err))
          /\ IF a.err # NoError
             THEN /\ ret' = CreateError(a.err)
                  /\ UNCHANGED <<blkHash, ticket>>
             ELSE /\ blkHash' = a.hash
                  /\ ret' = [isNil |-> FALSE, data |-> CreateResult(round, a.hash),
                             err |-> NoError]
                  /\ ticket' = [made |-> TRUE, data |-> CreateResult(round, a.hash),
                                round |-> round, hash |-> a.hash,
                                stale |-> Cmp(lastRound, round) > 0]
    /\ pc' = "done"
    /\ UNCHANGED <<lastRound, blockHash, reorgs, ncalls, op, auxData, round, expired>>

----------------------------------------------------------------------------
(* RoundAuxDataValidator.Validate *)

\* A faulty ValidLength: longer values pass
ValidLengthAtLeast(data) == Len(data) >= AuxDataLen

\* line 82
ValidLength(data) == Len(data) = AuxDataLen

\* line 86: creationRound := new(big.Int).SetBytes(auxData[:32])
creationRound(data) == SetBytes(SubSeq(data, 1, RoundLen))

\* line 87: creationRoundBlkHash := auxData[32:]
creationRoundBlkHash(data) == SubSeq(data, RoundLen + 1, Len(data))

\* A faulty Compare: the hash is compared first
CompareHashFirst(data, r, h) ==
    IF ~bytesEqual(creationRoundBlkHash(data), h) THEN errInvalidCreationRoundBlockHash
    ELSE IF Cmp(creationRound(data), r) # 0 THEN errInvalidCreationRound
         ELSE NoError

\* A faulty Compare: a creation round before the current one passes
CompareGrace(data, r, h) ==
    IF Cmp(creationRound(data), r) > 0 THEN errInvalidCreationRound
    ELSE IF ~bytesEqual(creationRoundBlkHash(data), h)
         THEN errInvalidCreationRoundBlockHash
         ELSE NoError

\* lines 99-107: the two comparisons, the round first
Compare(data, r, h) ==
    IF Cmp(creationRound(data), r) # 0 THEN errInvalidCreationRound
    ELSE IF ~bytesEqual(creationRoundBlkHash(data), h)
         THEN errInvalidCreationRoundBlockHash
         ELSE NoError

\* what Validate returns: an error or nil
ValidateReturn(err) == [isNil |-> TRUE, data |-> <<>>, err |-> err]

\* lines 80-87; the argument is any value a caller may hold, the last ticket included
CallValidate ==
    /\ pc = "idle" /\ ncalls < MaxCalls
    /\ \E data \in AuxInputs \cup {d \in {ticket.data} : ticket.made} :
          /\ auxData' = data
          /\ IF ~ValidLength(data)
             THEN /\ ret' = ValidateReturn(errInvalidAuxDataLength)
                  /\ pc' = "done"
             ELSE /\ ret' = ret
                  /\ pc' = "L89"
    /\ ncalls' = ncalls + 1
    /\ op' = "Validate"
    /\ expired' = (ticket.made /\ Cmp(lastRound, ticket.round) > 0)
    /\ UNCHANGED <<lastRound, blockHash, reorgs, round, blkHash, calls, ticket>>

\* A faulty ValidateLastInitializedRound: the rounds are compared before the
\* block hash is asked for
ValidateLastInitializedRoundEarly ==
    /\ op = "Validate" /\ pc = "L89"
    /\ \E a \in LastInitializedRound :
          /\ calls' = Append(calls, Query("LastInitializedRound", <<>>, a.round, a.err))
          /\ IF a.err # NoError
             THEN /\ ret' = ValidateReturn(a.err)
                  /\ pc' = "done"
                  /\ round' = round
             ELSE IF Cmp(creationRound(auxData), a.round) # 0
                  THEN /\ ret' = ValidateReturn(errInvalidCreationRound)
                       /\ pc' = "done"
                       /\ round' = a.round
                  ELSE /\ round' = a.round
                       /\ pc' = "L94"
                       /\ ret' = ret
    /\ UNCHANGED <<lastRound, blockHash, reorgs, ncalls, op, auxData, blkHash, ticket,
                   expired>>

\* lines 89-92
ValidateLastInitializedRound ==
    /\ op = "Validate" /\ pc = "L89"
    /\ \E a \in LastInitializedRound :
          /\ calls' = Append(calls, Query("LastInitializedRound", <<>>, a.round, a.err))
          /\ IF a.err # NoError
             THEN /\ ret' = ValidateReturn(a.err)
                  /\ pc' = "done"
                  /\ round' = round
             ELSE /\ round' = a.round
                  /\ pc' = "L94"
                  /\ ret' = ret
    /\ UNCHANGED <<lastRound, blockHash, reorgs, ncalls, op, auxData, blkHash, ticket,
                   expired>>

\* A faulty ValidateBlockHashForRound: the hash asked for is that of the round
\* decoded from the aux data
ValidateBlockHashForRoundDecoded ==
    /\ op = "Validate" /\ pc = "L94"
    /\ \E a \in BlockHashForRound(creationRound(auxData)) :
          /\ calls' = Append(calls, Query("BlockHashForRound", <<creationRound(auxData)>>,
                                          a.hash, a.err))
          /\ IF a.err # NoError
             THEN /\ ret' = ValidateReturn(a.err)
                  /\ blkHash' = blkHash
             ELSE /\ blkHash' = a.hash
                  /\ ret' = ValidateReturn(Compare(auxData, round, a.hash))
    /\ pc' = "done"
    /\ UNCHANGED <<lastRound, blockHash, reorgs, ncalls, op, auxData, round, ticket,
                   expired>>

\* lines 94-107
ValidateBlockHashForRound ==
    /\ op = "Validate" /\ pc = "L94"
    /\ \E a \in BlockHashForRound(round) :
          /\ calls' = Append(calls, Query("BlockHashForRound", <<round>>, a.hash, a.err))
          /\ IF a.err # NoError
             THEN /\ ret' = ValidateReturn(a.err)
                  /\ blkHash' = blkHash
             ELSE /\ blkHash' = a.hash
                  /\ ret' = ValidateReturn(Compare(auxData, round, a.hash))
    /\ pc' = "done"
    /\ UNCHANGED <<lastRound, blockHash, reorgs, ncalls, op, auxData, round, ticket,
                   expired>>

\* the caller takes what the call returned; the call's locals are gone
Return ==
    /\ pc = "done"
    /\ pc' = "idle" /\ op' = "none"
    /\ auxData' = <<>> /\ round' = Round0 /\ blkHash' = ZeroHash
    /\ ret' = NoReturn /\ calls' = <<>>
    /\ expired' = FALSE
    /\ UNCHANGED <<lastRound, blockHash, reorgs, ncalls, ticket>>

----------------------------------------------------------------------------
(* The specification *)

\* the block hashes before any reorg: the test's hash for the rounds of one byte,
\* the zero hash for the others
InitBlockHash == [r \in Rounds |-> IF Len(r.abs) = 1 THEN TestHash ELSE ZeroHash]

Init ==
    /\ lastRound \in Rounds
    /\ blockHash = InitBlockHash
    /\ reorgs = 0
    /\ ncalls = 0
    /\ op = "none" /\ pc = "idle"
    /\ auxData = <<>> /\ round = Round0 /\ blkHash = ZeroHash
    /\ ret = NoReturn /\ calls = <<>>
    /\ ticket = NoTicket
    /\ expired = FALSE

Next ==
    \/ AdvanceRound
    \/ Reorg
    \/ CallCreate
    \/ CreateLastInitializedRound
    \/ CreateBlockHashForRound
    \/ CallValidate
    \/ ValidateLastInitializedRound
    \/ ValidateBlockHashForRound
    \/ Return

Spec == Init /\ [][Next]_vars

----------------------------------------------------------------------------
(* What the properties speak of *)

\* the call o has returned and its result is at hand
Returned(o) == pc = "done" /\ op = o

\* no query of the current call failed
AllAnswered == \A i \in 1..Len(calls) : calls[i].err = NoError

\* both queries were made and answered
BothAnswered == Len(calls) = 2 /\ AllAnswered

\* 0 <= r < 2^256
InRange(r) == ~r.neg /\ Len(r.abs) <= RoundLen

\* 2^256 <= r
OverRange(r) == ~r.neg /\ Len(r.abs) > RoundLen

\* the digit of weight 256^k of |r|
Digit(r, k) == IF k < Len(r.abs) THEN r.abs[k + 1] ELSE 0

\* bytes 0..32 of data are r, unsigned, big-endian, zero-padded on the left
EncodesRound(data, r) ==
    /\ InRange(r)
    /\ Len(data) >= RoundLen
    /\ \A i \in 1..RoundLen : data[i] = Digit(r, RoundLen - i)

\* data has 64 bytes and bytes 32..64 of data are h
CarriesHash(data, h) ==
    /\ Len(data) = AuxDataLen
    /\ \A i \in 1..HashLen : data[RoundLen + i] = h[i]

\* Validate was given the aux data the last successful Create returned
ValidatesTicket == Returned("Validate") /\ ticket.made /\ auxData = ticket.data

\* the expected values of TestCreate (auxdata_test.go, lines 66-114)
TestVectors ==
    /\ (round = Round0 /\ blkHash = TestHash) => ret.data = Zeros(32) \o TestHash
    /\ (round = Round5 /\ blkHash = ZeroHash) => ret.data = Zeros(31) \o <<5>> \o Zeros(32)
    /\ (round = Round0 /\ blkHash = ZeroHash) => ret.data = Zeros(64)
    /\ (round = Round5 /\ blkHash = TestHash) => ret.data = Zeros(31) \o <<5>> \o TestHash

----------------------------------------------------------------------------
(* The properties *)

\* C1: round trip. When Validate is given what Create returned for a round r,
\* 0 <= r < 2^256, and hash h, and every query Validate makes is answered as in
\* Create (LastInitializedRound = r, BlockHashForRound(r) = h), Validate returns
\* no error.
C1_RoundTrip ==
    ( /\ ValidatesTicket
      /\ InRange(ticket.round)
      /\ AllAnswered
      /\ Len(calls) >= 1 => calls[1].ans = <<ticket.round>>
      /\ Len(calls) >= 2 => calls[2].args = <<ticket.round>> /\ calls[2].ans = <<ticket.hash>> )
    => ret.err = NoError

C1_Witness ==
    /\ ValidatesTicket /\ BothAnswered
    /\ ticket.round = RoundMax /\ ticket.hash = NearHash
    /\ calls[1].ans = <<RoundMax>> /\ calls[2].ans = <<NearHash>>
    /\ ret.err = NoError

\* C2: a successful Create for a round r, 0 <= r < 2^256, and hash h returns
\* exactly 64 bytes: bytes 0..32 are r big-endian, zero-padded on the left (32
\* zero bytes for round 0), bytes 32..64 are h byte for byte.
C2_CreateLayout ==
    (Returned("Create") /\ ret.err = NoError /\ InRange(round))
    => /\ BothAnswered
       /\ calls[1].ans = <<round>> /\ calls[2].ans = <<blkHash>>
       /\ ~ret.isNil
       /\ Len(ret.data) = 64
       /\ EncodesRound(ret.data, round)
       /\ CarriesHash(ret.data, blkHash)
       /\ round = Round0 => SubSeq(ret.data, 1, 32) = Zeros(32)
       /\ blkHash = ZeroHash => SubSeq(ret.data, 33, 64) = Zeros(32)
       /\ TestVectors

C2_Witness ==
    /\ Returned("Create") /\ ret.err = NoError
    /\ round = Round256 /\ blkHash = TestHash
    /\ ret.data = Zeros(30) \o <<1, 0>> \o TestHash

\* C3: Validate of a value whose length is not 64 returns the invalid length
\* error at once, whatever the value holds, and makes no query.
C3_InvalidLength ==
    (op = "Validate" /\ Len(auxData) # 64)
    => /\ pc = "done"
       /\ ret.err = errInvalidAuxDataLength
       /\ calls = <<>>

C3_Witness ==
    /\ Returned("Validate") /\ Len(auxData) = 65
    /\ ret.err = errInvalidAuxDataLength /\ calls = <<>>

\* C4: when a query fails during Create, or during Validate of a 64-byte value,
\* the call returns the error the RoundsManager answered with, as it is; Create
\* returns nil data with it.
C4_ErrorPropagated ==
    (pc = "done" /\ ~AllAnswered)
    => /\ ret.err = calls[Len(calls)].err
       /\ ret.err \in {errLastInitializedRound, errBlockHashForRound}
       /\ op = "Create" => ret.isNil /\ ret.data = <<>>

C4_Witness ==
    /\ Returned("Create") /\ Len(calls) = 2
    /\ calls[2].err = errBlockHashForRound
    /\ ret = [isNil |-> TRUE, data |-> <<>>, err |-> errBlockHashForRound]

\* C5: Validate of a 64-byte value, both queries answered with round r and hash
\* h, returns the invalid creation round error when bytes 0..32 are not r (whatever
\* the hash), the invalid creation round block hash error when they are r and
\* bytes 32..64 are not h, and no error otherwise; 64 zero bytes pass only for
\* r = 0 and h all zero.
C5_ValidateDecision ==
    (Returned("Validate") /\ Len(auxData) = 64 /\ BothAnswered)
    => /\ calls[1].ans = <<round>> /\ calls[2].ans = <<blkHash>>
       /\ ret.err = IF ~EncodesRound(auxData, round) THEN errInvalidCreationRound
                    ELSE IF ~CarriesHash(auxData, blkHash)
                         THEN errInvalidCreationRoundBlockHash
                         ELSE NoError
       /\ (auxData = Zeros(64) /\ ret.err = NoError)
             => (round = Round0 /\ blkHash = ZeroHash)

C5_Witness ==
    /\ Returned("Validate") /\ Len(auxData) = 64 /\ BothAnswered
    /\ ~EncodesRound(auxData, round) /\ ~CarriesHash(auxData, blkHash)
    /\ ret.err = errInvalidCreationRound

\* C6: the last initialized round never decreasing, a Validate called once that
\* round is past N, on the aux data Create returned at round N (N >= 0), fails:
\* with the invalid creation round error when both queries are answered.
C6_ExpiredTicket ==
    (ValidatesTicket /\ ~ticket.round.neg /\ expired)
    => /\ ret.err # NoError
       /\ BothAnswered => ret.err = errInvalidCreationRound

C6_Witness ==
    /\ ValidatesTicket /\ expired /\ BothAnswered
    /\ ticket.round = Round5 /\ round = RoundMax
    /\ blkHash = ticket.hash
    /\ ret.err = errInvalidCreationRound

\* C7: Validate of a 64-byte value makes both queries before it compares: after
\* an answered LastInitializedRound the block hash is asked for even when the
\* rounds differ, a failure of that query is what Validate returns, and a
\* mismatch error is returned only when both queries were answered.
C7_QueriesBeforeComparisons ==
    (Returned("Validate") /\ Len(auxData) = 64)
    => /\ (Len(calls) >= 1 /\ calls[1].err = NoError) => Len(calls) = 2
       /\ (Len(calls) = 2 /\ calls[2].err # NoError) => ret.err = calls[2].err
       /\ ret.err \in {errInvalidCreationRound, errInvalidCreationRoundBlockHash}
             => BothAnswered

C7_Witness ==
    /\ Returned("Validate") /\ Len(auxData) = 64 /\ Len(calls) = 2
    /\ calls[1].err = NoError /\ ~EncodesRound(auxData, round)
    /\ calls[2].err = errBlockHashForRound
    /\ ret.err = errBlockHashForRound

\* C8: a call makes at most two queries: LastInitializedRound first, then, only
\* if that was answered, BlockHashForRound of the round just answered; after a
\* failed query no other follows.
C8_QueryOrder ==
    /\ Len(calls) <= 2
    /\ Len(calls) >= 1 =>
          /\ op \in {"Create", "Validate"}
          /\ calls[1].fn = "LastInitializedRound" /\ calls[1].args = <<>>
    /\ Len(calls) = 2 =>
          /\ calls[1].err = NoError
          /\ calls[2].fn = "BlockHashForRound"
          /\ calls[2].args = calls[1].ans
    /\ (pc = "done" /\ op = "Create") => Len(calls) >= 1
    /\ \A i \in 1..Len(calls) : calls[i].err # NoError => i = Len(calls) /\ pc = "done"

C8_Witness ==
    /\ Returned("Validate") /\ Len(calls) = 2
    /\ EncodesRound(auxData, Round5)
    /\ calls[1].ans = <<Round256>> /\ calls[2].args = <<Round256>>

\* C9 as stated: the round advancing between the two queries of Create, Create
\* returns round r with the hash of round r, and a later Validate of it returns
\* the invalid creation round error.
C9_Original ==
    /\ (Returned("Create") /\ ret.err = NoError /\ ticket.stale /\ InRange(round))
       => /\ EncodesRound(ret.data, round)
          /\ CarriesHash(ret.data, blockHash[round])
    /\ (ValidatesTicket /\ ticket.stale /\ InRange(ticket.round))
       => ret.err = errInvalidCreationRound

\* C9 amended: the round advancing from r to r' > r between the two queries of
\* Create (0 <= r < 2^256), Create returns round r with the hash of round r, and
\* a later Validate of it fails: with the invalid creation round error when both
\* its queries are answered, with the error of the failed query otherwise.
C9_StaleCreate ==
    /\ (Returned("Create") /\ ret.err = NoError /\ ticket.stale /\ InRange(round))
       => /\ Cmp(lastRound, round) > 0
          /\ calls[1].ans = <<round>> /\ calls[2].args = <<round>>
          /\ EncodesRound(ret.data, round)
          /\ CarriesHash(ret.data, blockHash[round])
          /\ ret.data = ticket.data
    /\ (ValidatesTicket /\ ticket.stale /\ InRange(ticket.round))
       => /\ ret.err # NoError
          /\ BothAnswered => ret.err = errInvalidCreationRound
          /\ ~BothAnswered => (Len(calls) >= 1 /\ ret.err = calls[Len(calls)].err)

C9_Witness ==
    /\ ValidatesTicket /\ ticket.stale /\ BothAnswered
    /\ ticket.round = Round0 /\ EncodesRound(auxData, Round0)
    /\ ret.err = errInvalidCreationRound

\* C10: Create does not check the range of the round: for a round of 2^256 or
\* more it returns, without error, the round's bytes untruncated followed by the
\* hash, more than 64 bytes, which Validate rejects with the invalid length
\* error; a successful Create returns 64 bytes only for a round below 2^256.
C10_NoRangeCheck ==
    /\ (Returned("Create") /\ BothAnswered /\ OverRange(round))
       => /\ ret.err = NoError /\ ~ret.isNil
          /\ Len(ret.data) = Len(round.abs) + HashLen
          /\ Len(ret.data) > 64
          /\ \A i \in 1..Len(round.abs) : ret.data[i] = Digit(round, Len(round.abs) - i)
          /\ \A i \in 1..HashLen : ret.data[Len(round.abs) + i] = blkHash[i]
    /\ (ValidatesTicket /\ OverRange(ticket.round))
       => ret.err = errInvalidAuxDataLength /\ calls = <<>>
    /\ (Returned("Create") /\ ret.err = NoError /\ Len(ret.data) = 64)
       => Len(round.abs) <= RoundLen

C10_Witness ==
    /\ ValidatesTicket /\ ticket.round = RoundOver
    /\ Len(auxData) = 65 /\ auxData[1] = 1
    /\ ret.err = errInvalidAuxDataLength

====
